---- MODULE Spec2Model ----
(***************************************************************************)
(* Spartan native core: the agent-model registry (SpartanModelRegistry),   *)
(* the engine facade (SpartanEngine) and the C boundary (SpartanApi.cpp),  *)
(* called concurrently by host threads.                                    *)
(*                                                                         *)
(* A boundary call first enters (Call...), then runs its registry          *)
(* operations.  A registry operation whose lock_guard covers a few         *)
(* statements is one step, taken only while the mutex is free; tickAll     *)
(* keeps the mutex over several steps.  Work a caller does on its own      *)
(* locals (spans, make_unique, rebind of a popped model) is a step of its  *)
(* own outside the mutex, as in SpartanEngine::registerAgent.              *)
(*                                                                         *)
(* Specifications: Spec (hosts passing valid arguments), SpecPooled (the   *)
(* same with the intended idle-pool hand-off), SpecBoundary (one host      *)
(* passing any arguments), SpecFair (Spec under fair scheduling),          *)
(* SpecUnion (spartan_test_vector_union on two host arrays), SpecModel    *)
(* (the member functions of one SpartanBaseModel) and SpecKernel (one call *)
(* of a fuzzy, metric or gradient kernel on two host arrays).              *)
(***************************************************************************)
EXTENDS Integers, Sequences, FiniteSets, TLC

\* ------------------------------------------------------------------ bounds
NumCallers == 2   \* host threads calling into the boundary
NumIds == 2       \* agent identifiers the host uses
MaxCalls == 3     \* boundary calls made in one behaviour
MaxLen == 5       \* elements of a host array handed to a kernel

Callers == 1..NumCallers
Ids == 1..NumIds
RefSets == 1..MaxCalls      \* every boundary call brings its own host buffers
Instances == 1..MaxCalls   \* every register call constructs at most one model
Degrees == {0, 1}          \* the values an array element takes
Indices == 1..MaxLen

\* ------------------------------------------------------- values and records
nullptr == 0
NoModel == 0      \* an empty std::unique_ptr<SpartanBaseModel>
NoOwner == 0      \* registryMutex_ not held

\* std::span(pointer, count)
Span(pointer, count) == [data |-> pointer, size |-> count]

\* std::span<double>() : the empty view
EmptySpan == [data |-> nullptr, size |-> 0]

\* The buffers the host passes with the b-th call.  Each call has its own
\* addresses, so the buffers of two calls never share a pointer.
HostArgs(b) ==
    [hyperparameterConfig |-> 10 * b + 1,
     criticWeightsBuffer  |-> 10 * b + 2, criticWeightsCount |-> b,
     modelWeightsBuffer   |-> 10 * b + 3, modelWeightsCount  |-> b + 1,
     contextBuffer        |-> 10 * b + 4, contextCount       |-> b + 2,
     actionOutputBuffer   |-> 10 * b + 5, actionOutputCount  |-> b + 3]

\* the reward array the host passes with the b-th call
HostRewards(b) == [globalRewardsBuffer |-> 10 * b + 6, globalRewardsCount |-> b]

PointerFields ==
    {"hyperparameterConfig", "criticWeightsBuffer", "modelWeightsBuffer",
     "contextBuffer", "actionOutputBuffer"}

CountFields ==
    {"criticWeightsCount", "modelWeightsCount", "contextCount", "actionOutputCount"}

\* a count that is not positive
BadCounts == {0, -1}

\* what a host can pass to spartan_register_model with its b-th call: the
\* call's buffers, or the same with one pointer null or one count not positive
RegisterInputs(b) ==
    {HostArgs(b)}
        \cup {[HostArgs(b) EXCEPT ![f] = nullptr] : f \in PointerFields}
        \cup {[HostArgs(b) EXCEPT ![f] = n] : f \in CountFields, n \in BadCounts}

\* what a host can pass to spartan_tick_all with its b-th call
RewardInputs(b) ==
    {HostRewards(b), [HostRewards(b) EXCEPT !.globalRewardsBuffer = nullptr]}
        \cup {[HostRewards(b) EXCEPT !.globalRewardsCount = n] : n \in BadCounts}

\* a validation that leaves out the check of the hyperparameter pointer
RegisterArgsValid_SkipHyperparameters(a) ==
    /\ ~(a.criticWeightsBuffer = nullptr \/ a.criticWeightsCount <= 0)
    /\ ~(a.modelWeightsBuffer = nullptr \/ a.modelWeightsCount <= 0)
    /\ ~(a.actionOutputBuffer = nullptr \/ a.actionOutputCount <= 0)
    /\ ~(a.contextBuffer = nullptr \/ a.contextCount <= 0)

\* a validation that leaves out the check of the context buffer
RegisterArgsValid_SkipContext(a) ==
    /\ ~(a.hyperparameterConfig = nullptr)
    /\ ~(a.criticWeightsBuffer = nullptr \/ a.criticWeightsCount <= 0)
    /\ ~(a.modelWeightsBuffer = nullptr \/ a.modelWeightsCount <= 0)
    /\ ~(a.actionOutputBuffer = nullptr \/ a.actionOutputCount <= 0)

\* spartan_register_model : none of the five checks returns -1
RegisterArgsValid(a) ==
    /\ ~(a.hyperparameterConfig = nullptr)
    /\ ~(a.criticWeightsBuffer = nullptr \/ a.criticWeightsCount <= 0)
    /\ ~(a.modelWeightsBuffer = nullptr \/ a.modelWeightsCount <= 0)
    /\ ~(a.actionOutputBuffer = nullptr \/ a.actionOutputCount <= 0)
    /\ ~(a.contextBuffer = nullptr \/ a.contextCount <= 0)

\* a validation that looks at the reward pointer only
TickArgsValid_PointerOnly(r) == ~(r.globalRewardsBuffer = nullptr)

\* spartan_tick_all : the check does not return -1
TickArgsValid(r) == ~(r.globalRewardsBuffer = nullptr \/ r.globalRewardsCount <= 0)

\* a constructor that initialises weights_ and contextBuffer_ from each
\* other's argument
NewModel_SwapViews(agentId, params, critic, weights, contextBuffer, actionBuffer) ==
    [uuid_ |-> agentId, params_ |-> params, critic_ |-> critic,
     weights_ |-> contextBuffer, contextBuffer_ |-> weights,
     actionBuffer_ |-> actionBuffer]

\* SpartanBaseModel::SpartanBaseModel : the member initialiser list
NewModel(agentId, params, critic, weights, contextBuffer, actionBuffer) ==
    [uuid_ |-> agentId, params_ |-> params, critic_ |-> critic,
     weights_ |-> weights, contextBuffer_ |-> contextBuffer,
     actionBuffer_ |-> actionBuffer]

\* a rebind that leaves critic_ as it was
rebind_KeepCritic(m, agentId, params, critic, weights, contextBuffer, actionBuffer) ==
    [m EXCEPT !.uuid_ = agentId, !.params_ = params,
              !.weights_ = weights, !.contextBuffer_ = contextBuffer,
              !.actionBuffer_ = actionBuffer]

\* SpartanBaseModel::rebind : every field is assigned from the arguments
rebind(m, agentId, params, critic, weights, contextBuffer, actionBuffer) ==
    [m EXCEPT !.uuid_ = agentId, !.params_ = params, !.critic_ = critic,
              !.weights_ = weights, !.contextBuffer_ = contextBuffer,
              !.actionBuffer_ = actionBuffer]

\* an unbind that clears the two pointers and keeps the three views
unbind_KeepViews(m) == [m EXCEPT !.params_ = nullptr, !.critic_ = nullptr]

\* SpartanBaseModel::unbind : uuid_ is kept, the references are cleared
unbind(m) ==
    [m EXCEPT !.params_ = nullptr, !.critic_ = nullptr,
              !.weights_ = EmptySpan, !.contextBuffer_ = EmptySpan,
              !.actionBuffer_ = EmptySpan]

\* SpartanBaseModel::getId
getId(m) == m.uuid_

\* Storage of an instance no constructor has run on yet
RawStorage == NewModel(0, nullptr, nullptr, EmptySpan, EmptySpan, EmptySpan)

NoArgs == [op |-> "none", id |-> 0, refs |-> 0]

\* what a model is bound to: its id and the four host references
BoundRefs(m) ==
    [id |-> m.uuid_, params |-> m.params_, weights |-> m.weights_,
     context |-> m.contextBuffer_, action |-> m.actionBuffer_]

\* the id and references a register call hands over
CallRefs(e) ==
    LET a == HostArgs(e.refs)
    IN [id |-> e.id, params |-> a.hyperparameterConfig,
        weights |-> Span(a.modelWeightsBuffer, a.modelWeightsCount),
        context |-> Span(a.contextBuffer, a.contextCount),
        action |-> Span(a.actionOutputBuffer, a.actionOutputCount)]

\* the view entry of an id that has no model
Absent ==
    [id |-> 0, params |-> nullptr, weights |-> EmptySpan, context |-> EmptySpan,
     action |-> EmptySpan]

\* the effect one call is specified to have on the host's view of the
\* active mapping: register binds the id to the call's references,
\* unregister removes the id, a call the boundary rejected changes nothing
ApplyCall(view, e) ==
    IF e.op = "register" THEN [view EXCEPT ![e.id] = CallRefs(e)]
    ELSE IF e.op = "unregister" THEN [view EXCEPT ![e.id] = Absent]
    ELSE view

\* --------------------------------------------------------------------- state
VARIABLES
    activeModels_,    \* SpartanModelRegistry::activeModels_ : id -> instance
    idleModels_,      \* SpartanModelRegistry::idleModels_ : vector, back last
    registryMutex_,   \* owner of SpartanModelRegistry::registryMutex_
    objects,          \* the SpartanBaseModel object behind each instance
    constructed,      \* number of SpartanBaseModel constructor runs so far
    destroyed,        \* instances whose destructor has run
    pc,               \* where each caller is
    args,             \* the call each caller is executing
    idleModel,        \* registerAgent's local `idleModel`
    model,            \* registerAgent's local `model`
    modelsToTick,     \* tickAll's local vector, per caller
    ticked,           \* elements of modelsToTick the for_each has visited
    processTickCalls, \* processTick invocations per instance in this tick
    status,           \* value the last boundary call returned to the caller
    calls,            \* number of boundary calls entered so far
    overlap,          \* TRUE once a call started while another was running
    seqLog,           \* the register/unregister calls in call order, kept
                      \* as long as no two calls have overlapped
    effectView,       \* what the calls that took effect so far, applied in
                      \* that order, are specified to leave bound to each id
    available,        \* what hasIdleModelAvailable last returned to a caller
    \* one call of spartan_test_vector_union on two host arrays
    targetSet,        \* the host array behind targetFuzzySet
    sourceSet,        \* the host array behind sourceFuzzySet
    unionArgs,        \* the arguments of the call, once it is made
    unionResult,      \* the value the call returned
    kernelRan,        \* TRUE when the call reached FuzzySetOps::unionSets
    \* one SpartanBaseModel object and the host memory it can be bound to
    self,             \* the fields of the object
    method,           \* the member function last called on it, and the
                      \* fields the object had before that call
    isTraining,       \* ModelHyperparameterConfig::isTraining per host record
    hostMemory,       \* the content at each host buffer address
    aborted,          \* TRUE once a member function read through nullptr and
                      \* the process ended
    \* one call of a math kernel on the two host arrays
    kernelCall        \* the kernel called, its arguments, the target array
                      \* before the call and the value the call returned

unionVars == <<targetSet, sourceSet, unionArgs, unionResult, kernelRan>>
modelVars == <<self, method, isTraining, hostMemory, aborted>>
kernelVars == <<kernelCall>>
unitVars == <<unionVars, modelVars, kernelVars>>

engineVars == <<activeModels_, idleModels_, registryMutex_, objects, constructed,
                destroyed, pc, args, idleModel, model, modelsToTick, ticked,
                processTickCalls, status, calls, overlap, seqLog, effectView,
                available>>

vars == <<activeModels_, idleModels_, registryMutex_, objects, constructed,
          destroyed, pc, args, idleModel, model, modelsToTick, ticked,
          processTickCalls, status, calls, overlap, seqLog, effectView,
          available, unitVars>>

registryVars == <<activeModels_, idleModels_>>
objectVars == <<objects, constructed, destroyed>>
tickVars == <<modelsToTick, ticked, processTickCalls>>
logVars == <<calls, overlap, seqLog>>

\* SpartanModelRegistry() = default; static SpartanEngine engine;
EngineInit ==
    /\ activeModels_ = [i \in Ids |-> NoModel]
    /\ idleModels_ = <<>>
    /\ registryMutex_ = NoOwner
    /\ objects = [m \in Instances |-> RawStorage]
    /\ constructed = 0
    /\ destroyed = {}
    /\ pc = [c \in Callers |-> "idle"]
    /\ args = [c \in Callers |-> NoArgs]
    /\ idleModel = [c \in Callers |-> NoModel]
    /\ model = [c \in Callers |-> NoModel]
    /\ modelsToTick = [c \in Callers |-> {}]
    /\ ticked = [c \in Callers |-> {}]
    /\ processTickCalls = [m \in Instances |-> 0]
    /\ status = [c \in Callers |-> 0]
    /\ calls = 0
    /\ overlap = FALSE
    /\ seqLog = <<>>
    /\ effectView = [i \in Ids |-> Absent]
    /\ available = [c \in Callers |-> FALSE]

NoUnionArgs ==
    [called |-> FALSE, targetFuzzySet |-> nullptr, sourceFuzzySet |-> nullptr,
     targetSetSize |-> 0, sourceSetSize |-> 0]

\* no host array is handed to spartan_test_vector_union
UnionUnused ==
    /\ targetSet = <<>>
    /\ sourceSet = <<>>
    /\ unionArgs = NoUnionArgs
    /\ unionResult = 0
    /\ kernelRan = FALSE

NoMethod == [name |-> "none", before |-> RawStorage]

\* no SpartanBaseModel is exercised on its own
ModelUnused ==
    /\ self = RawStorage
    /\ method = NoMethod
    /\ isTraining = <<>>
    /\ hostMemory = <<>>
    /\ aborted = FALSE

\* a double that is an ordinary number, and the two results a division by
\* zero gives instead
Finite(value) == [class |-> "finite", value |-> value]
Infinity == [class |-> "infinity", value |-> 0]
NaN == [class |-> "nan", value |-> 0]

NoKernelCall ==
    [name |-> "none", arrayLength |-> 0, aliased |-> FALSE, remorse |-> 0,
     learningRate |-> 0, before |-> <<>>, result |-> Finite(0),
     divided |-> FALSE]

\* no math kernel is called on its own
KernelUnused == kernelCall = NoKernelCall

\* the engine as the library loads it
Init == EngineInit /\ UnionUnused /\ ModelUnused /\ KernelUnused

\* ------------------------------------------------------------------ helpers
\* a guard that does not wait for the mutex
lock_guard_NoWait(c) == registryMutex_' = c

\* std::lock_guard lock(registryMutex_) of an operation that keeps the mutex
\* over several steps: blocks until the mutex is free
lock_guard(c) ==
    /\ registryMutex_ = NoOwner
    /\ registryMutex_' = c

\* a guard whose destructor does not unlock
unlock_guard_Keep(c) ==
    /\ registryMutex_ = c
    /\ registryMutex_' = c

\* ~lock_guard at the end of that operation
unlock_guard(c) ==
    /\ registryMutex_ = c
    /\ registryMutex_' = NoOwner

\* a one-step operation that does not wait for the mutex
lock_guard_scope_NoWait(c) == registryMutex_' = registryMutex_

\* std::lock_guard lock(registryMutex_) of an operation that is one step:
\* taken when the mutex is free and released when the step ends
lock_guard_scope(c) ==
    /\ registryMutex_ = NoOwner
    /\ registryMutex_' = NoOwner

\* a map assignment that always writes the slot of the least key
MapAssign_LeastKey(map, key, value) ==
    [map EXCEPT ![CHOOSE i \in DOMAIN map : \A j \in DOMAIN map : i <= j] = value]

\* a map insert that keeps an existing entry (try_emplace instead of operator[])
MapAssign_KeepExisting(map, key, value) ==
    IF map[key] = NoModel THEN [map EXCEPT ![key] = value] ELSE map

\* activeModels_[key] = std::move(value) : inserts or overwrites
MapAssign(map, key, value) == [map EXCEPT ![key] = value]

\* an erase that drops every entry (clear() instead of erase(key))
MapErase_Clear(map, key) == [i \in Ids |-> NoModel]

\* activeModels_.erase(key)
MapErase(map, key) == [map EXCEPT ![key] = NoModel]

\* activeModels_ | std::views::values, as raw pointers
MapValues(map) == {map[i] : i \in {j \in Ids : map[j] # NoModel}}

\* the instances a vector of unique_ptr owns
VectorValues(vec) == {vec[k] : k \in 1..Len(vec)}

\* a pop that leaves the last element in the vector
PopBack_Keep(vec) == vec

\* vector::pop_back
PopBack(vec) == SubSeq(vec, 1, Len(vec) - 1)

\* ~SpartanBaseModel through the unique_ptr that owned instance m (NoModel:
\* the unique_ptr was empty); the storage of a destroyed object is released
Destroy(objs, m) == IF m = NoModel THEN objs ELSE [objs EXCEPT ![m] = RawStorage]

Destroyed(set, m) == IF m = NoModel THEN set ELSE set \cup {m}

\* a register or unregister call enters the boundary with its own buffers
LogCall(c, e) ==
    LET concurrent == overlap \/ \E d \in Callers \ {c} : pc[d] # "idle"
    IN /\ calls < MaxCalls
       /\ calls' = calls + 1
       /\ overlap' = concurrent
       /\ seqLog' = IF concurrent THEN <<>> ELSE Append(seqLog, e)

\* ------------------------------------------------------------ register path
\* spartan_register_model : the argument checks, each returning -1; with
\* valid arguments SpartanEngine::registerAgent up to its call of
\* getIdleModelToRebind
CallRegister(c, id, a) ==
    LET e == [op |-> "register", id |-> id, refs |-> calls + 1]
        r == [op |-> "register_rejected", id |-> id, refs |-> 0]
    IN /\ pc[c] = "idle"
       /\ IF RegisterArgsValid(a)
             THEN /\ LogCall(c, e)
                  /\ args' = [args EXCEPT ![c] = e]
                  /\ pc' = [pc EXCEPT ![c] = "getIdleModelToRebind"]
                  /\ status' = status
             ELSE /\ LogCall(c, r)
                  /\ status' = [status EXCEPT ![c] = -1]
                  /\ UNCHANGED <<args, pc>>
       /\ UNCHANGED <<available, unitVars, registryVars, registryMutex_,
                      objectVars, idleModel, model, tickVars, effectView>>

\* SpartanModelRegistry::hasIdleModelAvailable, called on the engine's
\* registry
HasIdleModelAvailable(c) ==
    /\ pc[c] = "idle"
    /\ lock_guard_scope(c)
    /\ available' = [available EXCEPT ![c] = ~(Len(idleModels_) = 0)]
    /\ UNCHANGED <<unitVars, registryVars, objectVars, pc, args, idleModel, model,
                   tickVars, status, logVars, effectView>>

\* SpartanModelRegistry::getIdleModelToRebind : nullptr or the back element
GetIdleModelToRebind(c) ==
    /\ pc[c] = "getIdleModelToRebind"
    /\ lock_guard_scope(c)
    /\ IF Len(idleModels_) = 0
          THEN /\ idleModel' = [idleModel EXCEPT ![c] = NoModel]
               /\ idleModels_' = idleModels_
          ELSE /\ idleModel' = [idleModel EXCEPT ![c] = idleModels_[Len(idleModels_)]]
               /\ idleModels_' = PopBack(idleModels_)
    /\ pc' = [pc EXCEPT ![c] = "construct"]
    /\ UNCHANGED <<available, unitVars, activeModels_, objectVars, args, model, tickVars, status,
                   logVars, effectView>>

\* SpartanEngine::registerAgent after getIdleModelToRebind returned: the
\* `if` rebinds a popped model, whose unique_ptr dies with the `if` scope;
\* then make_unique runs unconditionally.
Construct(c) ==
    /\ pc[c] = "construct"
    /\ LET a == HostArgs(args[c].refs)
           contextSpan == Span(a.contextBuffer, a.contextCount)
           modelWeightsSpan == Span(a.modelWeightsBuffer, a.modelWeightsCount)
           actionOutputSpan == Span(a.actionOutputBuffer, a.actionOutputCount)
           criticInstance == nullptr
           fresh == constructed + 1
           popped == idleModel[c]
           rebound == IF popped = NoModel THEN objects
                      ELSE [objects EXCEPT ![popped] =
                               rebind(@, args[c].id, a.hyperparameterConfig,
                                      criticInstance, modelWeightsSpan,
                                      contextSpan, actionOutputSpan)]
       IN /\ objects' = [Destroy(rebound, popped) EXCEPT ![fresh] =
                            NewModel(args[c].id, a.hyperparameterConfig,
                                     criticInstance, modelWeightsSpan,
                                     contextSpan, actionOutputSpan)]
          /\ destroyed' = Destroyed(destroyed, popped)
          /\ constructed' = fresh
          /\ model' = [model EXCEPT ![c] = fresh]
    /\ idleModel' = [idleModel EXCEPT ![c] = NoModel]
    /\ pc' = [pc EXCEPT ![c] = "registerModel"]
    /\ UNCHANGED <<available, unitVars, registryVars, registryMutex_, args, tickVars, status, logVars,
                   effectView>>

\* SpartanModelRegistry::registerModel : the map assignment destroys the
\* model the slot held before; spartan_register_model then returns 0
RegisterModel(c) ==
    /\ pc[c] = "registerModel"
    /\ lock_guard_scope(c)
    /\ LET key == getId(objects[model[c]])
           previous == activeModels_[key]
       IN /\ activeModels_' = MapAssign(activeModels_, key, model[c])
          /\ objects' = Destroy(objects, previous)
          /\ destroyed' = Destroyed(destroyed, previous)
    /\ effectView' = ApplyCall(effectView, args[c])
    /\ model' = [model EXCEPT ![c] = NoModel]
    /\ args' = [args EXCEPT ![c] = NoArgs]
    /\ status' = [status EXCEPT ![c] = 0]
    /\ pc' = [pc EXCEPT ![c] = "idle"]
    /\ UNCHANGED <<available, unitVars, idleModels_, constructed, idleModel, tickVars, logVars>>

\* ---------------------------------------------------------- unregister path
\* spartan_unregister_model, SpartanEngine::unregisterAgent up to the
\* registry call
CallUnregister(c, id) ==
    LET e == [op |-> "unregister", id |-> id, refs |-> 0]
    IN /\ pc[c] = "idle"
       /\ LogCall(c, e)
       /\ args' = [args EXCEPT ![c] = e]
       /\ pc' = [pc EXCEPT ![c] = "unregisterModel"]
       /\ UNCHANGED <<available, unitVars, registryVars, registryMutex_, objectVars, idleModel, model,
                      tickVars, status, effectView>>

\* SpartanModelRegistry::unregisterModel : erase destroys the owned model;
\* unregisterAgent logs and spartan_unregister_model returns 0
UnregisterModel(c) ==
    /\ pc[c] = "unregisterModel"
    /\ lock_guard_scope(c)
    /\ LET removed == activeModels_[args[c].id]
       IN /\ activeModels_' = MapErase(activeModels_, args[c].id)
          /\ objects' = Destroy(objects, removed)
          /\ destroyed' = Destroyed(destroyed, removed)
    /\ effectView' = ApplyCall(effectView, args[c])
    /\ args' = [args EXCEPT ![c] = NoArgs]
    /\ status' = [status EXCEPT ![c] = 0]
    /\ pc' = [pc EXCEPT ![c] = "idle"]
    /\ UNCHANGED <<available, unitVars, idleModels_, constructed, idleModel, model, tickVars, logVars>>

\* ---------------------------------------------------------------- tick path
\* spartan_tick_all : the check of the reward buffer, returning -1; with a
\* valid buffer SpartanEngine::tickAllAgents up to the registry call
CallTick(c, r) ==
    LET concurrent == overlap \/ \E d \in Callers \ {c} : pc[d] # "idle"
    IN /\ pc[c] = "idle"
       /\ IF TickArgsValid(r)
             THEN /\ calls < MaxCalls
                  /\ calls' = calls + 1
                  /\ args' = [args EXCEPT ![c] = [op |-> "tick", id |-> 0, refs |-> 0]]
                  /\ overlap' = concurrent
                  /\ seqLog' = IF concurrent THEN <<>> ELSE seqLog
                  /\ pc' = [pc EXCEPT ![c] = "tickAll"]
                  /\ status' = status
             ELSE /\ LogCall(c, [op |-> "tick_rejected", id |-> 0, refs |-> 0])
                  /\ status' = [status EXCEPT ![c] = -1]
                  /\ UNCHANGED <<args, pc>>
       /\ UNCHANGED <<available, unitVars, registryVars, registryMutex_,
                      objectVars, idleModel, model, tickVars, effectView>>

\* a tickAll whose guard covers the snapshot only
TickAllSnapshot_ThenRelease(c) ==
    /\ pc[c] = "tickAll"
    /\ registryMutex_ = NoOwner
    /\ registryMutex_' = NoOwner
    /\ modelsToTick' = [modelsToTick EXCEPT ![c] = MapValues(activeModels_)]
    /\ ticked' = [ticked EXCEPT ![c] = {}]
    /\ processTickCalls' = [m \in Instances |-> 0]
    /\ pc' = [pc EXCEPT ![c] = "tickAll_fanout"]
    /\ UNCHANGED <<available, unitVars, registryVars, objectVars, args, idleModel, model, status,
                   logVars, effectView>>

\* SpartanModelRegistry::tickAll : the lock_guard, then the raw pointers of
\* all active models
TickAllSnapshot(c) ==
    /\ pc[c] = "tickAll"
    /\ lock_guard(c)
    /\ modelsToTick' = [modelsToTick EXCEPT ![c] = MapValues(activeModels_)]
    /\ ticked' = [ticked EXCEPT ![c] = {}]
    /\ processTickCalls' = [m \in Instances |-> 0]
    /\ pc' = [pc EXCEPT ![c] = "tickAll_fanout"]
    /\ UNCHANGED <<available, unitVars, registryVars, objectVars, args, idleModel, model, status,
                   logVars, effectView>>

\* How many times the for_each lambda calls processTick on its element:
\* the lambda body holds only comments.
LambdaProcessTickCalls == 0

\* a lambda that calls an operation of the registry that takes the mutex:
\* the lock of the nested guard waits for the mutex to be free
TickAllLambda_TakesMutex(c, m) ==
    /\ pc[c] = "tickAll_fanout"
    /\ m \in modelsToTick[c] \ ticked[c]
    /\ registryMutex_ = NoOwner
    /\ ticked' = [ticked EXCEPT ![c] = @ \cup {m}]
    /\ processTickCalls' = [processTickCalls EXCEPT ![m] = @ + LambdaProcessTickCalls]
    /\ UNCHANGED <<available, unitVars, registryVars, registryMutex_, objectVars, pc, args, idleModel,
                   model, modelsToTick, status, logVars, effectView>>

\* a lambda that takes its model out of the active mapping
TickAllLambda_Erases(c, m) ==
    /\ pc[c] = "tickAll_fanout"
    /\ m \in modelsToTick[c] \ ticked[c]
    /\ ticked' = [ticked EXCEPT ![c] = @ \cup {m}]
    /\ activeModels_' = [i \in Ids |-> IF activeModels_[i] = m THEN NoModel
                                       ELSE activeModels_[i]]
    /\ UNCHANGED <<available, unitVars, idleModels_, registryMutex_, objectVars, pc, args,
                   idleModel, model, modelsToTick, processTickCalls, status,
                   logVars, effectView>>

\* std::for_each(std::execution::par, ...) : one application of the lambda
\* to an element not visited yet, in any order
TickAllLambda(c, m) ==
    /\ pc[c] = "tickAll_fanout"
    /\ m \in modelsToTick[c] \ ticked[c]
    /\ ticked' = [ticked EXCEPT ![c] = @ \cup {m}]
    /\ processTickCalls' = [processTickCalls EXCEPT ![m] = @ + LambdaProcessTickCalls]
    /\ UNCHANGED <<available, unitVars, registryVars, registryMutex_, objectVars, pc, args, idleModel,
                   model, modelsToTick, status, logVars, effectView>>

\* SpartanModelRegistry::tickAll returns once for_each has visited every
\* element; spartan_tick_all returns 0
TickAllReturn(c) ==
    /\ pc[c] = "tickAll_fanout"
    /\ ticked[c] = modelsToTick[c]
    /\ unlock_guard(c)
    /\ modelsToTick' = [modelsToTick EXCEPT ![c] = {}]
    /\ ticked' = [ticked EXCEPT ![c] = {}]
    /\ args' = [args EXCEPT ![c] = NoArgs]
    /\ status' = [status EXCEPT ![c] = 0]
    /\ pc' = [pc EXCEPT ![c] = "idle"]
    /\ UNCHANGED <<available, unitVars, registryVars, objectVars, idleModel, model, processTickCalls,
                   logVars, effectView>>

\* ------------------------------------------------------------ specification
Next ==
    \E c \in Callers :
        \/ \E id \in Ids : CallRegister(c, id, HostArgs(calls + 1))
        \/ HasIdleModelAvailable(c)
        \/ GetIdleModelToRebind(c)
        \/ Construct(c)
        \/ RegisterModel(c)
        \/ \E id \in Ids : CallUnregister(c, id)
        \/ UnregisterModel(c)
        \/ CallTick(c, HostRewards(calls + 1))
        \/ TickAllSnapshot(c)
        \/ \E m \in Instances : TickAllLambda(c, m)
        \/ TickAllReturn(c)

Spec == Init /\ [][Next]_vars

\* Every thread that has entered a call keeps being scheduled: a step of a
\* running call that stays possible is taken, and so is a step of the
\* for_each workers.  Nothing is assumed about when a host makes a call.
Fairness ==
    \A c \in Callers :
        /\ WF_vars(GetIdleModelToRebind(c))
        /\ WF_vars(Construct(c))
        /\ WF_vars(RegisterModel(c))
        /\ WF_vars(UnregisterModel(c))
        /\ WF_vars(TickAllSnapshot(c))
        /\ WF_vars(\E m \in Instances : TickAllLambda(c, m))
        /\ WF_vars(TickAllReturn(c))

\* The mutex protocol reads no agent id: the hosts of the fair specification
\* register and unregister one id.
FairIds == {i \in Ids : \A j \in Ids : i <= j}

NextFair ==
    \E c \in Callers :
        \/ \E id \in FairIds : CallRegister(c, id, HostArgs(calls + 1))
        \/ HasIdleModelAvailable(c)
        \/ GetIdleModelToRebind(c)
        \/ Construct(c)
        \/ RegisterModel(c)
        \/ \E id \in FairIds : CallUnregister(c, id)
        \/ UnregisterModel(c)
        \/ CallTick(c, HostRewards(calls + 1))
        \/ TickAllSnapshot(c)
        \/ \E m \in Instances : TickAllLambda(c, m)
        \/ TickAllReturn(c)

SpecFair == Init /\ [][NextFair]_vars /\ Fairness

\* One host thread that makes its calls one after the other and may pass
\* any arguments, valid or not.
SingleHost == {c \in Callers : \A d \in Callers : c <= d}

NextBoundary ==
    \E c \in SingleHost :
        \/ \E id \in Ids, a \in RegisterInputs(calls + 1) : CallRegister(c, id, a)
        \/ HasIdleModelAvailable(c)
        \/ GetIdleModelToRebind(c)
        \/ Construct(c)
        \/ RegisterModel(c)
        \/ \E id \in Ids : CallUnregister(c, id)
        \/ UnregisterModel(c)
        \/ \E r \in RewardInputs(calls + 1) : CallTick(c, r)
        \/ TickAllSnapshot(c)
        \/ \E m \in Instances : TickAllLambda(c, m)
        \/ TickAllReturn(c)

SpecBoundary == Init /\ [][NextBoundary]_vars

TypeOK ==
    /\ activeModels_ \in [Ids -> Instances \cup {NoModel}]
    /\ registryMutex_ \in Callers \cup {NoOwner}
    /\ constructed \in 0..MaxCalls
    /\ destroyed \subseteq 1..constructed

\* -------------------------------------------- the intended idle-pool hand-off
\* Registry.unregister as section 4.6 of the design describes it: the removed
\* model is unbound and returned to the idle pool instead of being destroyed.
UnregisterModelPooled(c) ==
    /\ pc[c] = "unregisterModel"
    /\ lock_guard_scope(c)
    /\ LET removed == activeModels_[args[c].id]
       IN /\ activeModels_' = MapErase(activeModels_, args[c].id)
          /\ idleModels_' = IF removed = NoModel THEN idleModels_
                            ELSE Append(idleModels_, removed)
          /\ objects' = IF removed = NoModel THEN objects
                        ELSE [objects EXCEPT ![removed] = unbind(@)]
    /\ effectView' = ApplyCall(effectView, args[c])
    /\ args' = [args EXCEPT ![c] = NoArgs]
    /\ status' = [status EXCEPT ![c] = 0]
    /\ pc' = [pc EXCEPT ![c] = "idle"]
    /\ UNCHANGED <<available, unitVars, constructed, destroyed, idleModel, model, tickVars, logVars>>

\* The engine and registry of the source, with only unregisterModel's body
\* replaced by the intended hand-off: the one way the idle pool fills.
NextPooled ==
    \E c \in Callers :
        \/ \E id \in Ids : CallRegister(c, id, HostArgs(calls + 1))
        \/ HasIdleModelAvailable(c)
        \/ GetIdleModelToRebind(c)
        \/ Construct(c)
        \/ RegisterModel(c)
        \/ \E id \in Ids : CallUnregister(c, id)
        \/ UnregisterModelPooled(c)
        \/ CallTick(c, HostRewards(calls + 1))
        \/ TickAllSnapshot(c)
        \/ \E m \in Instances : TickAllLambda(c, m)
        \/ TickAllReturn(c)

SpecPooled == Init /\ [][NextPooled]_vars

\* ------------------------------------------- spartan_test_vector_union alone
\* the addresses of the two host arrays
TargetAddress == 1
SourceAddress == 2

\* the values std::chrono reports for the elapsed nanoseconds
Elapsed == {0, 1}

\* the sizes a host passes: not positive, or up to the length of its arrays
HostSizes == -1..MaxLen

\* MemoryUtils::cleanView : a span over the host's memory, nothing is copied
cleanView(pointer, count) == Span(pointer, count)

\* std::max on doubles, _mm256_max_pd per lane
Max(a, b) == IF a >= b THEN a ELSE b

\* std::min on the two sizes
Min(a, b) == IF a <= b THEN a ELSE b

\* FuzzySetOps::unionSets, second loop: one element at a time up to
\* arrayLength.  elementIndex counts from 0 as in the source.
RECURSIVE UnionTail(_, _, _, _)
UnionTail(targetValues, sourceValues, elementIndex, arrayLength) ==
    IF elementIndex < arrayLength
    THEN UnionTail([targetValues EXCEPT ![elementIndex + 1] =
                        Max(targetValues[elementIndex + 1],
                            sourceValues[elementIndex + 1])],
                   sourceValues, elementIndex + 1, arrayLength)
    ELSE targetValues

\* FuzzySetOps::unionSets, first loop: four elements at a time while four
\* are left, then the second loop
RECURSIVE UnionBatches(_, _, _, _)
UnionBatches(targetValues, sourceValues, elementIndex, arrayLength) ==
    IF elementIndex <= arrayLength - 4
    THEN UnionBatches([i \in Indices |->
                          IF i \in (elementIndex + 1)..(elementIndex + 4)
                          THEN Max(targetValues[i], sourceValues[i])
                          ELSE targetValues[i]],
                      sourceValues, elementIndex + 4, arrayLength)
    ELSE UnionTail(targetValues, sourceValues, elementIndex, arrayLength)

\* FuzzySetOps::unionSets : the content of the target array afterwards
unionSets(targetValues, sourceValues, arrayLength) ==
    UnionBatches(targetValues, sourceValues, 0, arrayLength)

\* a computeFuzzySetUnion that runs the kernel over the target's length
computeFuzzySetUnion_TargetLength(targetValues, sourceValues, targetSetSize, sourceSetSize) ==
    unionSets(targetValues, sourceValues, targetSetSize)

\* SpartanEngine::computeFuzzySetUnion : the content of the target array
\* afterwards
computeFuzzySetUnion(targetValues, sourceValues, targetSetSize, sourceSetSize) ==
    LET targetCleanView == cleanView(TargetAddress, targetSetSize)
        sourceCleanView == cleanView(SourceAddress, sourceSetSize)
    IN unionSets(targetValues, sourceValues,
                 Min(targetCleanView.size, sourceCleanView.size))

\* a validation that does not look at sourceSetSize
UnionArgsValid_TargetSizeOnly(targetFuzzySet, sourceFuzzySet, targetSetSize, sourceSetSize) ==
    /\ ~(targetFuzzySet = nullptr \/ sourceFuzzySet = nullptr)
    /\ ~(targetSetSize <= 0)

\* spartan_test_vector_union : neither of the two checks returns -1
UnionArgsValid(targetFuzzySet, sourceFuzzySet, targetSetSize, sourceSetSize) ==
    /\ ~(targetFuzzySet = nullptr \/ sourceFuzzySet = nullptr)
    /\ ~(targetSetSize <= 0 \/ sourceSetSize <= 0)

\* spartan_test_vector_union, called once on the two arrays: the checks,
\* then computeFuzzySetUnion
SpartanTestVectorUnion(targetFuzzySet, sourceFuzzySet, targetSetSize, sourceSetSize) ==
    /\ ~unionArgs.called
    /\ unionArgs' = [called |-> TRUE,
                     targetFuzzySet |-> targetFuzzySet,
                     sourceFuzzySet |-> sourceFuzzySet,
                     targetSetSize |-> targetSetSize,
                     sourceSetSize |-> sourceSetSize]
    /\ IF UnionArgsValid(targetFuzzySet, sourceFuzzySet, targetSetSize, sourceSetSize)
          THEN /\ targetSet' = computeFuzzySetUnion(targetSet, sourceSet,
                                                    targetSetSize, sourceSetSize)
               /\ kernelRan' = TRUE
               /\ unionResult' \in Elapsed
          ELSE /\ targetSet' = targetSet
               /\ kernelRan' = FALSE
               /\ unionResult' = -1
    /\ sourceSet' = sourceSet
    /\ UNCHANGED <<engineVars, modelVars, kernelVars>>

\* two host arrays of MaxLen elements each
InitUnion ==
    /\ EngineInit
    /\ ModelUnused
    /\ KernelUnused
    /\ targetSet \in [Indices -> Degrees]
    /\ sourceSet \in [Indices -> Degrees]
    /\ unionArgs = NoUnionArgs
    /\ unionResult = 0
    /\ kernelRan = FALSE

NextUnion ==
    \E targetFuzzySet \in {nullptr, TargetAddress},
       sourceFuzzySet \in {nullptr, SourceAddress},
       targetSetSize \in HostSizes, sourceSetSize \in HostSizes :
        SpartanTestVectorUnion(targetFuzzySet, sourceFuzzySet,
                               targetSetSize, sourceSetSize)

SpecUnion == InitUnion /\ [][NextUnion]_vars

\* ------------------------------------------------- one SpartanBaseModel alone
\* the host buffer sets the object can be bound to
ModelArgSets == {1, 2}

\* the critic the host can pass along with buffer set b
CriticAddress(b) == 10 * b + 7

Critics(b) == {nullptr, CriticAddress(b)}

\* the addresses of the hyperparameter records of those sets
ParamAddresses == {HostArgs(b).hyperparameterConfig : b \in ModelArgSets}

\* the addresses of their weight, context and action buffers
BufferAddresses ==
    UNION {{HostArgs(b).modelWeightsBuffer, HostArgs(b).contextBuffer,
            HostArgs(b).actionOutputBuffer} : b \in ModelArgSets}

\* SpartanBaseModel(agentId, params, critic, weights, contextBuffer,
\* actionBuffer) called with buffer set b
ConstructedWith(agentId, b, critic) ==
    LET a == HostArgs(b)
    IN NewModel(agentId, a.hyperparameterConfig, critic,
                Span(a.modelWeightsBuffer, a.modelWeightsCount),
                Span(a.contextBuffer, a.contextCount),
                Span(a.actionOutputBuffer, a.actionOutputCount))

\* a processTick that updates the first weight whatever the flag says
processTick_Trains(m, training, memory) ==
    [memory EXCEPT ![m.weights_.data] = 1 - @]

\* SpartanBaseModel::processTick on a model whose params_ is not null: the
\* host memory afterwards.  The function returns when isTraining is false;
\* otherwise it reaches the end of its body, which holds a TODO comment only.
processTick(m, training, memory) ==
    IF ~training[m.params_] THEN memory
    ELSE memory

\* rebind called on the object with buffer set b
ModelRebind(agentId, b, critic) ==
    /\ ~aborted
    /\ LET a == HostArgs(b)
       IN self' = rebind(self, agentId, a.hyperparameterConfig, critic,
                         Span(a.modelWeightsBuffer, a.modelWeightsCount),
                         Span(a.contextBuffer, a.contextCount),
                         Span(a.actionOutputBuffer, a.actionOutputCount))
    /\ method' = [name |-> "rebind", before |-> self]
    /\ UNCHANGED <<isTraining, hostMemory, aborted, engineVars, unionVars, kernelVars>>

\* unbind called on the object
ModelUnbind ==
    /\ ~aborted
    /\ self' = unbind(self)
    /\ method' = [name |-> "unbind", before |-> self]
    /\ UNCHANGED <<isTraining, hostMemory, aborted, engineVars, unionVars, kernelVars>>

\* processTick called on the object.  It is a const member function.  On an
\* unbound object params_->isTraining reads through nullptr: the process ends
\* there, or the read yields some value and the function returns.
ModelProcessTick ==
    /\ ~aborted
    /\ self' = self
    /\ method' = [name |-> "processTick", before |-> self]
    /\ IF self.params_ = nullptr
          THEN /\ aborted' \in BOOLEAN
               /\ hostMemory' = hostMemory
          ELSE /\ aborted' = FALSE
               /\ hostMemory' = processTick(self, isTraining, hostMemory)
    /\ UNCHANGED <<isTraining, engineVars, unionVars, kernelVars>>

\* the object right after its constructor, the host's hyperparameter
\* records and buffers holding any values
InitModel ==
    /\ EngineInit
    /\ UnionUnused
    /\ KernelUnused
    /\ \E agentId \in Ids, b \in ModelArgSets :
          \E critic \in Critics(b) : self = ConstructedWith(agentId, b, critic)
    /\ method = [name |-> "constructor", before |-> RawStorage]
    /\ isTraining \in [ParamAddresses -> BOOLEAN]
    /\ hostMemory \in [BufferAddresses -> Degrees]
    /\ aborted = FALSE

NextModel ==
    \/ \E agentId \in Ids, b \in ModelArgSets :
          \E critic \in Critics(b) : ModelRebind(agentId, b, critic)
    \/ ModelUnbind
    \/ ModelProcessTick

SpecModel == InitModel /\ [][NextModel]_vars

\* ---------------------------------------------------------- double arithmetic
\* A double is a binary floating-point number: a significand of a fixed
\* number of bits, an exponent with a least value, and results rounded to the
\* nearest such number, ties to the even significand.  The format is kept
\* and scaled down: SignificandBits bits, and the least positive number is
\* 1/One.  A finite double that is not negative is held as the count of least
\* positive numbers it is worth, so 1.0 is One, and with two bits the
\* numbers are 0, 1, 2, 3, 4, 6, 8, 12, 16, 24, ...  The kernels are given
\* membership degrees and short arrays, so no result comes near the largest
\* double and the largest exponent is left out.
SignificandBits == 2
One == 8

\* the distance between the doubles around the count q
RECURSIVE Ulp(_)
Ulp(q) == IF q < 2 ^ SignificandBits THEN 1 ELSE 2 * Ulp(q \div 2)

\* the double nearest to the exact value numerator/denominator
RoundToNearestEven(numerator, denominator) ==
    LET q == numerator \div denominator
        ulp == Ulp(q)
        below == (q \div ulp) * ulp
        above == below + ulp
    IN IF 2 * numerator < (below + above) * denominator THEN below
       ELSE IF 2 * numerator > (below + above) * denominator THEN above
       ELSE IF (below \div ulp) % 2 = 0 THEN below
       ELSE above

\* operator+ on doubles, _mm256_add_pd per lane
Add(a, b) == RoundToNearestEven(a + b, 1)

\* operator- on doubles with a >= b, _mm256_sub_pd per lane
Sub(a, b) == RoundToNearestEven(a - b, 1)

\* operator* on doubles, _mm256_mul_pd per lane
Mul(a, b) == RoundToNearestEven(a * b, One)

\* std::sqrt, _mm256_sqrt_pd per lane: the double nearest to the root
Sqrt(a) ==
    LET n == a * One
        q == CHOOSE r \in 0..n : r * r <= n /\ n < (r + 1) * (r + 1)
        ulp == Ulp(q)
        below == (q \div ulp) * ulp
        above == below + ulp
    IN IF 4 * n < (below + above) * (below + above) THEN below
       ELSE IF 4 * n > (below + above) * (below + above) THEN above
       ELSE IF (below \div ulp) % 2 = 0 THEN below
       ELSE above

\* operator/ on doubles: a division by zero does not trap, it gives infinity,
\* or NaN for 0/0
Div(a, b) ==
    IF b # 0 THEN Finite(RoundToNearestEven(a * One, b))
    ELSE IF a = 0 THEN NaN
    ELSE Infinity

\* the product of the two degrees instead of the smaller one
MinDegree_Product(a, b) == Mul(a, b)

\* std::min on doubles, _mm256_min_pd per lane
MinDegree(a, b) == IF b < a THEN b ELSE a

\* ------------------------------------------------------ the math kernels
\* FuzzySetOps::intersectSets, second loop: one element at a time up to arrayLength
RECURSIVE IntersectTail(_, _, _, _)
IntersectTail(targetValues, sourceValues, elementIndex, arrayLength) ==
    IF elementIndex < arrayLength
    THEN IntersectTail([targetValues EXCEPT ![elementIndex + 1] =
                    MinDegree(targetValues[elementIndex + 1],
                              sourceValues[elementIndex + 1])], sourceValues,
                elementIndex + 1, arrayLength)
    ELSE targetValues

\* FuzzySetOps::intersectSets, first loop: four elements at a time while four are left,
\* then the second loop
RECURSIVE IntersectBatches(_, _, _, _)
IntersectBatches(targetValues, sourceValues, elementIndex, arrayLength) ==
    IF elementIndex <= arrayLength - 4
    THEN IntersectBatches([i \in Indices |->
                       IF i \in (elementIndex + 1)..(elementIndex + 4)
                       THEN MinDegree(targetValues[i], sourceValues[i])
                       ELSE targetValues[i]], sourceValues,
                   elementIndex + 4, arrayLength)
    ELSE IntersectTail(targetValues, sourceValues, elementIndex, arrayLength)

\* FuzzySetOps::intersectSets : the content of the target array afterwards
intersectSets(targetValues, sourceValues, arrayLength) ==
    IntersectBatches(targetValues, sourceValues, 0, arrayLength)

\* FuzzySetOps::complementSet, second loop: one element at a time up to arrayLength
RECURSIVE ComplementTail(_, _, _)
ComplementTail(targetValues, elementIndex, arrayLength) ==
    IF elementIndex < arrayLength
    THEN ComplementTail([targetValues EXCEPT ![elementIndex + 1] =
                    Sub(One, targetValues[elementIndex + 1])],
                elementIndex + 1, arrayLength)
    ELSE targetValues

\* a first loop that runs a whole batch whenever an element is left
RECURSIVE ComplementBatches_WholeBatches(_, _, _)
ComplementBatches_WholeBatches(targetValues, elementIndex, arrayLength) ==
    IF elementIndex < arrayLength
    THEN ComplementBatches_WholeBatches(
             [i \in Indices |->
                 IF i \in (elementIndex + 1)..(elementIndex + 4)
                 THEN Sub(One, targetValues[i])
                 ELSE targetValues[i]],
             elementIndex + 4, arrayLength)
    ELSE ComplementTail(targetValues, elementIndex, arrayLength)

\* a first loop that stores the complement of the first lane in all four
RECURSIVE ComplementBatches_FirstLane(_, _, _)
ComplementBatches_FirstLane(targetValues, elementIndex, arrayLength) ==
    IF elementIndex <= arrayLength - 4
    THEN ComplementBatches_FirstLane(
             [i \in Indices |->
                 IF i \in (elementIndex + 1)..(elementIndex + 4)
                 THEN Sub(One, targetValues[elementIndex + 1])
                 ELSE targetValues[i]],
             elementIndex + 4, arrayLength)
    ELSE ComplementTail(targetValues, elementIndex, arrayLength)

\* FuzzySetOps::complementSet, first loop: four elements at a time while four are left,
\* then the second loop
RECURSIVE ComplementBatches(_, _, _)
ComplementBatches(targetValues, elementIndex, arrayLength) ==
    IF elementIndex <= arrayLength - 4
    THEN ComplementBatches([i \in Indices |->
                       IF i \in (elementIndex + 1)..(elementIndex + 4)
                       THEN Sub(One, targetValues[i])
                       ELSE targetValues[i]],
                   elementIndex + 4, arrayLength)
    ELSE ComplementTail(targetValues, elementIndex, arrayLength)

\* FuzzySetOps::complementSet : the content of the target array afterwards
complementSet(targetValues, arrayLength) ==
    ComplementBatches(targetValues, 0, arrayLength)

\* FuzzyModifiers::applyConcentration, second loop: one element at a time up to arrayLength
RECURSIVE ConcentrationTail(_, _, _)
ConcentrationTail(targetValues, elementIndex, arrayLength) ==
    IF elementIndex < arrayLength
    THEN ConcentrationTail([targetValues EXCEPT ![elementIndex + 1] =
                    Mul(targetValues[elementIndex + 1],
                        targetValues[elementIndex + 1])],
                elementIndex + 1, arrayLength)
    ELSE targetValues

\* FuzzyModifiers::applyConcentration, first loop: four elements at a time while four are left,
\* then the second loop
RECURSIVE ConcentrationBatches(_, _, _)
ConcentrationBatches(targetValues, elementIndex, arrayLength) ==
    IF elementIndex <= arrayLength - 4
    THEN ConcentrationBatches([i \in Indices |->
                       IF i \in (elementIndex + 1)..(elementIndex + 4)
                       THEN Mul(targetValues[i], targetValues[i])
                       ELSE targetValues[i]],
                   elementIndex + 4, arrayLength)
    ELSE ConcentrationTail(targetValues, elementIndex, arrayLength)

\* FuzzyModifiers::applyConcentration : the content of the target array
\* afterwards
applyConcentration(targetValues, arrayLength) ==
    ConcentrationBatches(targetValues, 0, arrayLength)

\* FuzzyModifiers::applyDilation, second loop: one element at a time up to arrayLength
RECURSIVE DilationTail(_, _, _)
DilationTail(targetValues, elementIndex, arrayLength) ==
    IF elementIndex < arrayLength
    THEN DilationTail([targetValues EXCEPT ![elementIndex + 1] =
                    Sqrt(targetValues[elementIndex + 1])],
                elementIndex + 1, arrayLength)
    ELSE targetValues

\* FuzzyModifiers::applyDilation, first loop: four elements at a time while four are left,
\* then the second loop
RECURSIVE DilationBatches(_, _, _)
DilationBatches(targetValues, elementIndex, arrayLength) ==
    IF elementIndex <= arrayLength - 4
    THEN DilationBatches([i \in Indices |->
                       IF i \in (elementIndex + 1)..(elementIndex + 4)
                       THEN Sqrt(targetValues[i])
                       ELSE targetValues[i]],
                   elementIndex + 4, arrayLength)
    ELSE DilationTail(targetValues, elementIndex, arrayLength)

\* FuzzyModifiers::applyDilation : the content of the target array afterwards
applyDilation(targetValues, arrayLength) ==
    DilationBatches(targetValues, 0, arrayLength)

\* GradientOps::applyRemorseUpdate, second loop: one element at a time up to arrayLength
RECURSIVE RemorseTail(_, _, _, _, _)
RemorseTail(weights, features, adjustmentFactor, elementIndex, arrayLength) ==
    IF elementIndex < arrayLength
    THEN RemorseTail([weights EXCEPT ![elementIndex + 1] =
                    Add(weights[elementIndex + 1],
                        Mul(adjustmentFactor, features[elementIndex + 1]))], features, adjustmentFactor,
                elementIndex + 1, arrayLength)
    ELSE weights

\* GradientOps::applyRemorseUpdate, first loop: four elements at a time while four are left,
\* then the second loop
RECURSIVE RemorseBatches(_, _, _, _, _)
RemorseBatches(weights, features, adjustmentFactor, elementIndex, arrayLength) ==
    IF elementIndex <= arrayLength - 4
    THEN RemorseBatches([i \in Indices |->
                       IF i \in (elementIndex + 1)..(elementIndex + 4)
                       THEN Add(weights[i], Mul(adjustmentFactor, features[i]))
                       ELSE weights[i]], features, adjustmentFactor,
                   elementIndex + 4, arrayLength)
    ELSE RemorseTail(weights, features, adjustmentFactor, elementIndex, arrayLength)

\* a factor that multiplies the learning rate into the features a second
\* time
AdjustmentFactor_RateTwice(remorse, learningRate) ==
    Mul(learningRate, Mul(learningRate, remorse))

\* const double adjustmentFactor = learningRate * remorse
AdjustmentFactor(remorse, learningRate) == Mul(learningRate, remorse)

\* GradientOps::applyRemorseUpdate : the content of the weights afterwards
applyRemorseUpdate(weights, features, remorse, learningRate, arrayLength) ==
    RemorseBatches(weights, features, AdjustmentFactor(remorse, learningRate),
                   0, arrayLength)

\* the four lanes of an accumulator after _mm256_setzero_pd
ZeroLanes == [lane \in 1..4 |-> 0]

\* lanes[0] + lanes[1] + lanes[2] + lanes[3], added left to right
SumLanes(lanes) == Add(Add(Add(lanes[1], lanes[2]), lanes[3]), lanes[4])

\* VectorMetrics::cosineSimilarity, first loop: four elements at a time are
\* multiplied and added into the lanes of the three accumulators.  The value
\* is the accumulators and elementIndex when the loop ends.
RECURSIVE CosineBatches(_, _, _, _, _)
CosineBatches(firstVector, secondVector, elementIndex, arrayLength, simd) ==
    IF elementIndex <= arrayLength - 4
    THEN CosineBatches(firstVector, secondVector, elementIndex + 4, arrayLength,
             [dotProduct |->
                  [lane \in 1..4 |->
                      Add(simd.dotProduct[lane],
                          Mul(firstVector[elementIndex + lane],
                              secondVector[elementIndex + lane]))],
              firstMagnitudeSquared |->
                  [lane \in 1..4 |->
                      Add(simd.firstMagnitudeSquared[lane],
                          Mul(firstVector[elementIndex + lane],
                              firstVector[elementIndex + lane]))],
              secondMagnitudeSquared |->
                  [lane \in 1..4 |->
                      Add(simd.secondMagnitudeSquared[lane],
                          Mul(secondVector[elementIndex + lane],
                              secondVector[elementIndex + lane]))]])
    ELSE [elementIndex |-> elementIndex,
          dotProduct |-> SumLanes(simd.dotProduct),
          firstMagnitudeSquared |-> SumLanes(simd.firstMagnitudeSquared),
          secondMagnitudeSquared |-> SumLanes(simd.secondMagnitudeSquared)]

\* VectorMetrics::cosineSimilarity, second loop: the elements left are added
\* to the three sums one at a time
RECURSIVE CosineTail(_, _, _, _, _)
CosineTail(firstVector, secondVector, elementIndex, arrayLength, sums) ==
    IF elementIndex < arrayLength
    THEN CosineTail(firstVector, secondVector, elementIndex + 1, arrayLength,
             [dotProduct |->
                  Add(sums.dotProduct,
                      Mul(firstVector[elementIndex + 1],
                          secondVector[elementIndex + 1])),
              firstMagnitudeSquared |->
                  Add(sums.firstMagnitudeSquared,
                      Mul(firstVector[elementIndex + 1],
                          firstVector[elementIndex + 1])),
              secondMagnitudeSquared |->
                  Add(sums.secondMagnitudeSquared,
                      Mul(secondVector[elementIndex + 1],
                          secondVector[elementIndex + 1]))])
    ELSE sums

\* the three sums VectorMetrics::cosineSimilarity holds at its line 43
CosineSums(firstVector, secondVector, arrayLength) ==
    LET simd == CosineBatches(firstVector, secondVector, 0, arrayLength,
                              [dotProduct |-> ZeroLanes,
                               firstMagnitudeSquared |-> ZeroLanes,
                               secondMagnitudeSquared |-> ZeroLanes])
    IN CosineTail(firstVector, secondVector, simd.elementIndex, arrayLength,
                  [dotProduct |-> simd.dotProduct,
                   firstMagnitudeSquared |-> simd.firstMagnitudeSquared,
                   secondMagnitudeSquared |-> simd.secondMagnitudeSquared])

\* a cosineSimilarity that returns early only when both magnitudes are zero
cosineSimilarity_BothZero(firstVector, secondVector, arrayLength) ==
    LET sums == CosineSums(firstVector, secondVector, arrayLength)
    IN IF sums.firstMagnitudeSquared = 0 /\ sums.secondMagnitudeSquared = 0
       THEN [result |-> Finite(0), divided |-> FALSE]
       ELSE [result |-> Div(sums.dotProduct,
                            Sqrt(Mul(sums.firstMagnitudeSquared,
                                     sums.secondMagnitudeSquared))),
             divided |-> TRUE]

\* VectorMetrics::cosineSimilarity : the value returned, and whether the
\* division of line 45 was executed
cosineSimilarity(firstVector, secondVector, arrayLength) ==
    LET sums == CosineSums(firstVector, secondVector, arrayLength)
    IN IF sums.firstMagnitudeSquared = 0 \/ sums.secondMagnitudeSquared = 0
       THEN [result |-> Finite(0), divided |-> FALSE]
       ELSE [result |-> Div(sums.dotProduct,
                            Sqrt(Mul(sums.firstMagnitudeSquared,
                                     sums.secondMagnitudeSquared))),
             divided |-> TRUE]

\* VectorMetrics::fuzzyJaccard, first loop: the minima and maxima of four
\* elements at a time are added into the lanes of the two accumulators
RECURSIVE JaccardBatches(_, _, _, _, _)
JaccardBatches(firstVector, secondVector, elementIndex, arrayLength, simd) ==
    IF elementIndex <= arrayLength - 4
    THEN JaccardBatches(firstVector, secondVector, elementIndex + 4, arrayLength,
             [intersectionSum |->
                  [lane \in 1..4 |->
                      Add(simd.intersectionSum[lane],
                          MinDegree(firstVector[elementIndex + lane],
                                    secondVector[elementIndex + lane]))],
              unionSum |->
                  [lane \in 1..4 |->
                      Add(simd.unionSum[lane],
                          Max(firstVector[elementIndex + lane],
                              secondVector[elementIndex + lane]))]])
    ELSE [elementIndex |-> elementIndex,
          intersectionSum |-> SumLanes(simd.intersectionSum),
          unionSum |-> SumLanes(simd.unionSum)]

\* a second loop that adds to the intersection sum only
RECURSIVE JaccardTail_IntersectionOnly(_, _, _, _, _)
JaccardTail_IntersectionOnly(firstVector, secondVector, elementIndex, arrayLength, sums) ==
    IF elementIndex < arrayLength
    THEN JaccardTail_IntersectionOnly(
             firstVector, secondVector, elementIndex + 1, arrayLength,
             [intersectionSum |->
                  Add(sums.intersectionSum,
                      MinDegree(firstVector[elementIndex + 1],
                                secondVector[elementIndex + 1])),
              unionSum |-> sums.unionSum])
    ELSE sums

\* VectorMetrics::fuzzyJaccard, second loop
RECURSIVE JaccardTail(_, _, _, _, _)
JaccardTail(firstVector, secondVector, elementIndex, arrayLength, sums) ==
    IF elementIndex < arrayLength
    THEN JaccardTail(firstVector, secondVector, elementIndex + 1, arrayLength,
             [intersectionSum |->
                  Add(sums.intersectionSum,
                      MinDegree(firstVector[elementIndex + 1],
                                secondVector[elementIndex + 1])),
              unionSum |->
                  Add(sums.unionSum,
                      Max(firstVector[elementIndex + 1],
                          secondVector[elementIndex + 1]))])
    ELSE sums

\* the two sums VectorMetrics::fuzzyJaccard holds at its line 73
JaccardSums(firstVector, secondVector, arrayLength) ==
    LET simd == JaccardBatches(firstVector, secondVector, 0, arrayLength,
                               [intersectionSum |-> ZeroLanes,
                                unionSum |-> ZeroLanes])
    IN JaccardTail(firstVector, secondVector, simd.elementIndex, arrayLength,
                   [intersectionSum |-> simd.intersectionSum,
                    unionSum |-> simd.unionSum])

\* a fuzzyJaccard that calls two sets without any truth fully apart
fuzzyJaccard_ZeroOnEmpty(firstVector, secondVector, arrayLength) ==
    LET sums == JaccardSums(firstVector, secondVector, arrayLength)
    IN IF sums.unionSum = 0
       THEN [result |-> Finite(0), divided |-> FALSE]
       ELSE [result |-> Div(sums.intersectionSum, sums.unionSum),
             divided |-> TRUE]

\* VectorMetrics::fuzzyJaccard : the value returned, and whether the division
\* of line 74 was executed
fuzzyJaccard(firstVector, secondVector, arrayLength) ==
    LET sums == JaccardSums(firstVector, secondVector, arrayLength)
    IN IF sums.unionSum = 0
       THEN [result |-> Finite(One), divided |-> FALSE]
       ELSE [result |-> Div(sums.intersectionSum, sums.unionSum),
             divided |-> TRUE]

\* --------------------------------------------------- one kernel call alone
\* the degrees the host arrays hold: 0.0, 0.375 and 1.0
KernelDegrees == {0, 3, One}

\* the lengths a caller passes: none of the elements up to all of them
KernelLengths == 0..MaxLen

\* the remorse and the learning rates a caller passes: 0.0 and 1.0, 0.5 and 1.0
Remorses == {0, One}
LearningRates == {One \div 2, One}

\* the second array of the host: the same degree everywhere, or the three
\* degrees in turn
ConstantArray(degree) == [i \in Indices |-> degree]
RampArray(shift) == [i \in Indices |-> <<0, 3, One>>[((i + shift) % 3) + 1]]
SourceArrays ==
    {ConstantArray(degree) : degree \in KernelDegrees}
        \cup {RampArray(shift) : shift \in 0..2}

\* what a kernel of return type void hands back
NoReturn == [result |-> Finite(0), divided |-> FALSE]

\* the array a kernel reads as its second argument: the host's second array,
\* or the first one when the caller passes the same pointer twice.  A kernel
\* reads both elements of an index before it writes that index.
SecondArgument(aliased) == IF aliased THEN targetSet ELSE sourceSet

\* a kernel is called once on the host arrays and returns.  The second array
\* is reached through a pointer to const.
KernelReturns(name, arrayLength, aliased, remorse, learningRate, targetAfter, returned) ==
    /\ kernelCall.name = "none"
    /\ kernelCall' = [name |-> name, arrayLength |-> arrayLength,
                      aliased |-> aliased, remorse |-> remorse,
                      learningRate |-> learningRate, before |-> targetSet,
                      result |-> returned.result,
                      divided |-> returned.divided]
    /\ targetSet' = targetAfter
    /\ sourceSet' = sourceSet
    /\ UNCHANGED <<engineVars, modelVars, unionArgs, unionResult, kernelRan>>

CallUnionSets(arrayLength, aliased) ==
    KernelReturns("unionSets", arrayLength, aliased, 0, 0,
                  unionSets(targetSet, SecondArgument(aliased), arrayLength),
                  NoReturn)

CallIntersectSets(arrayLength, aliased) ==
    KernelReturns("intersectSets", arrayLength, aliased, 0, 0,
                  intersectSets(targetSet, SecondArgument(aliased), arrayLength),
                  NoReturn)

CallComplementSet(arrayLength) ==
    KernelReturns("complementSet", arrayLength, FALSE, 0, 0,
                  complementSet(targetSet, arrayLength), NoReturn)

CallApplyConcentration(arrayLength) ==
    KernelReturns("applyConcentration", arrayLength, FALSE, 0, 0,
                  applyConcentration(targetSet, arrayLength), NoReturn)

CallApplyDilation(arrayLength) ==
    KernelReturns("applyDilation", arrayLength, FALSE, 0, 0,
                  applyDilation(targetSet, arrayLength), NoReturn)

CallApplyRemorseUpdate(remorse, learningRate, arrayLength) ==
    KernelReturns("applyRemorseUpdate", arrayLength, FALSE, remorse,
                  learningRate,
                  applyRemorseUpdate(targetSet, sourceSet, remorse,
                                     learningRate, arrayLength),
                  NoReturn)

CallCosineSimilarity(arrayLength, aliased) ==
    KernelReturns("cosineSimilarity", arrayLength, aliased, 0, 0, targetSet,
                  cosineSimilarity(targetSet, SecondArgument(aliased),
                                   arrayLength))

CallFuzzyJaccard(arrayLength, aliased) ==
    KernelReturns("fuzzyJaccard", arrayLength, aliased, 0, 0, targetSet,
                  fuzzyJaccard(targetSet, SecondArgument(aliased), arrayLength))

\* two host arrays of MaxLen elements each, no kernel called yet
InitKernel ==
    /\ EngineInit
    /\ ModelUnused
    /\ targetSet \in [Indices -> KernelDegrees]
    /\ sourceSet \in SourceArrays
    /\ unionArgs = NoUnionArgs
    /\ unionResult = 0
    /\ kernelRan = FALSE
    /\ KernelUnused

NextKernel ==
    \E arrayLength \in KernelLengths :
        \/ \E aliased \in BOOLEAN : CallUnionSets(arrayLength, aliased)
        \/ \E aliased \in BOOLEAN : CallIntersectSets(arrayLength, aliased)
        \/ CallComplementSet(arrayLength)
        \/ CallApplyConcentration(arrayLength)
        \/ CallApplyDilation(arrayLength)
        \/ \E remorse \in Remorses, learningRate \in LearningRates :
              CallApplyRemorseUpdate(remorse, learningRate, arrayLength)
        \/ \E aliased \in BOOLEAN : CallCosineSimilarity(arrayLength, aliased)
        \/ \E aliased \in BOOLEAN : CallFuzzyJaccard(arrayLength, aliased)

SpecKernel == InitKernel /\ [][NextKernel]_vars

\* ------------------------------------------------------- observation helpers
\* no boundary call is executing
Quiescent == \A c \in Callers : pc[c] = "idle"

\* the active mapping as the host sees it: id -> bound references, or Absent
ActiveView ==
    [i \in Ids |-> IF activeModels_[i] = NoModel THEN Absent
                   ELSE BoundRefs(objects[activeModels_[i]])]

EmptyView == [i \in Ids |-> Absent]

\* the view after the calls of a log, one after the other
RECURSIVE SequentialView(_)
SequentialView(log) ==
    IF log = <<>> THEN EmptyView
    ELSE ApplyCall(SequentialView(SubSeq(log, 1, Len(log) - 1)), log[Len(log)])

\* a tick holds the registry from its lock_guard to its return
TickInFlight(c) == pc[c] = "tickAll_fanout"

\* ==================================================================== claims

\* C1: after register and unregister calls made one after the other, each id
\* maps to at most one live model, no model is stored under two ids, every
\* id is bound to the references of its latest register call that no
\* unregister of that id followed, and every call the boundary did not
\* reject for its arguments returned success, also a register of an id that
\* was already active.
C1_LastRegistrationWins ==
    (Quiescent /\ ~overlap) =>
        /\ ActiveView = SequentialView(seqLog)
        /\ \A i, j \in Ids :
              (i # j /\ activeModels_[i] # NoModel) => activeModels_[i] # activeModels_[j]
        /\ MapValues(activeModels_) \cap destroyed = {}
        /\ (\A k \in 1..Len(seqLog) : seqLog[k].op \in {"register", "unregister"})
              => \A c \in Callers : status[c] = 0

\* two registers of the same id, one after the other: the second one's
\* references are the ones bound
C1_Witness ==
    /\ Quiescent /\ ~overlap
    /\ Len(seqLog) = 2
    /\ seqLog[1].op = "register" /\ seqLog[2].op = "register"
    /\ seqLog[1].id = seqLog[2].id
    /\ ActiveView[seqLog[2].id] = CallRefs(seqLog[2])
    /\ ActiveView[seqLog[2].id] # CallRefs(seqLog[1])

\* the models a running register call holds in its locals, on their way
\* from the idle pool or the constructor into the active mapping
InTransit == {idleModel[c] : c \in Callers} \cup {model[c] : c \in Callers}

C3_UnregisterReturnsModelToPool ==
    [][\A c \in Callers :
          (/\ pc[c] = "unregisterModel"
           /\ pc'[c] = "idle"
           /\ activeModels_[args[c].id] # NoModel) =>
              LET removed == activeModels_[args[c].id]
              IN /\ Len(idleModels_') = Len(idleModels_) + 1
                 /\ removed \in VectorValues(idleModels_')
                 /\ removed \notin destroyed'
                 /\ objects'[removed] = unbind(objects[removed])]_vars

\* C4: every constructed model is in exactly one of the active mapping and
\* the idle pool, never in both and never in neither.  A model that a running
\* register call is carrying into the active mapping is not held against the
\* claim, so a violation is a model the registry has lost for good.
C4_ExactlyOneOfActiveOrIdle ==
    \A m \in (1..constructed) \ InTransit :
        (m \in MapValues(activeModels_)) # (m \in VectorValues(idleModels_))

\* C5: when the fan-out of a tick has visited its whole snapshot, processTick
\* has run exactly once on every model of the snapshot and on no other.
C5_ProcessTickOncePerActiveModel ==
    \A c \in Callers :
        (pc[c] = "tickAll_fanout" /\ ticked[c] = modelsToTick[c]) =>
            \A m \in Instances :
                processTickCalls[m] = IF m \in modelsToTick[c] THEN 1 ELSE 0

\* C6: while a tick is in flight, from its lock_guard to its return, no step
\* of any caller changes the active mapping or the idle pool.
C6_RegistryFrozenDuringTick ==
    [][(\E c \in Callers : TickInFlight(c)) => UNCHANGED registryVars]_vars

\* a tick is in its fan-out over a non-empty snapshot while another caller's
\* register or unregister waits for the mutex
C6_Witness ==
    \E c, d \in Callers :
        /\ pc[c] = "tickAll_fanout"
        /\ modelsToTick[c] # {}
        /\ ticked[c] # modelsToTick[c]
        /\ pc[d] \in {"getIdleModelToRebind", "registerModel", "unregisterModel"}

\* C7: at most one tickAll is between its lock_guard and its return.
C7_OneTickInFlight ==
    Cardinality({c \in Callers : TickInFlight(c)}) <= 1

\* one tick is in its fan-out while a second tickAll call waits for the mutex
C7_Witness ==
    \E c, d \in Callers :
        /\ pc[c] = "tickAll_fanout"
        /\ modelsToTick[c] # {}
        /\ pc[d] = "tickAll"

\* C8: whenever all calls have returned, however they overlapped, the active
\* mapping is the one the register and unregister calls produce when they
\* are run one at a time in the order in which they took effect, an order
\* that keeps each caller's calls in the order it made them: per id the last
\* registration wins and unregister removes its id only.
C8_ConcurrentCallsLinearize ==
    Quiescent => ActiveView = effectView

\* two registers of the same id overlapped and the one that entered first
\* took effect last: its buffers are the ones bound
C8_Witness ==
    /\ Quiescent /\ overlap
    /\ calls = 2 /\ constructed = 2
    /\ \E i \in Ids :
          /\ ActiveView[i] = CallRefs([id |-> i, refs |-> 1])
          /\ \A j \in Ids \ {i} : ActiveView[j] = Absent

\* n distinct ids registered, then all of them unregistered, then n further
\* distinct ids registered
IsChurn(log, n) ==
    /\ Len(log) = 3 * n
    /\ \A k \in 1..n :
          /\ log[k].op = "register"
          /\ log[n + k].op = "unregister"
          /\ log[2 * n + k].op = "register"
    /\ Cardinality({log[k].id : k \in 1..n}) = n
    /\ {log[n + k].id : k \in 1..n} = {log[k].id : k \in 1..n}
    /\ Cardinality({log[2 * n + k].id : k \in 1..n}) = n
    /\ {log[2 * n + k].id : k \in 1..n} \cap {log[k].id : k \in 1..n} = {}

\* C9: after n distinct ids were registered, all unregistered and n further
\* distinct ids registered, one call after the other, n models have been
\* constructed in total.
C9_SecondWaveConstructsNone ==
    \A n \in 1..MaxCalls :
        (Quiescent /\ ~overlap /\ IsChurn(seqLog, n)) => constructed = n

\* C10: the step in which unregister(id) acts clears the entry of id, leaves
\* every other entry and the idle pool as they were, changes nothing at all
\* when id was absent, and returns 0.
C10_UnregisterIdempotent ==
    [][\A c \in Callers :
          (pc[c] = "unregisterModel" /\ pc'[c] = "idle") =>
              /\ activeModels_'[args[c].id] = NoModel
              /\ \A j \in Ids \ {args[c].id} : activeModels_'[j] = activeModels_[j]
              /\ idleModels_' = idleModels_
              /\ activeModels_[args[c].id] = NoModel => UNCHANGED registryVars
              /\ status'[c] = 0]_vars

\* register(id), unregister(id), unregister(id) have all returned: the second
\* unregister found the id absent
C10_Witness ==
    /\ Quiescent /\ ~overlap
    /\ Len(seqLog) = 3
    /\ seqLog[1].op = "register"
    /\ seqLog[2].op = "unregister" /\ seqLog[3].op = "unregister"
    /\ seqLog[1].id = seqLog[2].id /\ seqLog[2].id = seqLog[3].id
    /\ activeModels_[seqLog[3].id] = NoModel
    /\ \A c \in Callers : status[c] = 0

C12_RegisterValidatesArguments ==
    [][\A c \in Callers :
          /\ \A id \in Ids, a \in RegisterInputs(calls + 1) :
                CallRegister(c, id, a) =>
                    IF \/ \E f \in PointerFields : a[f] = nullptr
                       \/ \E f \in CountFields : a[f] <= 0
                    THEN /\ status'[c] = -1
                         /\ pc'[c] = "idle"
                         /\ UNCHANGED <<registryVars, objectVars>>
                    ELSE pc'[c] = "getIdleModelToRebind"
          /\ (pc[c] = "registerModel" /\ pc'[c] = "idle") =>
                /\ status'[c] = 0
                /\ activeModels_'[args[c].id] # NoModel]_vars

\* a register with valid arguments bound its id, then a register of another
\* id with invalid arguments returned -1 and that id is not in the mapping
C12_Witness ==
    /\ Quiescent /\ ~overlap
    /\ Len(seqLog) = 2
    /\ seqLog[1].op = "register" /\ seqLog[2].op = "register_rejected"
    /\ seqLog[1].id # seqLog[2].id
    /\ activeModels_[seqLog[1].id] # NoModel
    /\ activeModels_[seqLog[2].id] = NoModel
    /\ \E c \in Callers : status[c] = -1

\* C13: a spartan_tick_all call whose reward pointer is null or whose reward
\* count is not positive returns -1 at once: the mutex is not taken, no
\* snapshot is made, no lambda runs, the registry and the models are as they
\* were.  A call with a valid reward buffer runs tickAll once, from its
\* lock_guard to its return, and returns 0.
C13_TickValidatesRewards ==
    [][\A c \in Callers :
          /\ \A r \in RewardInputs(calls + 1) :
                CallTick(c, r) =>
                    IF r.globalRewardsBuffer = nullptr \/ r.globalRewardsCount <= 0
                    THEN /\ status'[c] = -1
                         /\ pc'[c] = "idle"
                         /\ UNCHANGED <<registryMutex_, tickVars, registryVars,
                                        objectVars>>
                    ELSE pc'[c] = "tickAll"
          /\ (pc[c] = "tickAll" /\ pc'[c] # "tickAll") =>
                pc'[c] = "tickAll_fanout" /\ registryMutex_' = c
          /\ (pc[c] = "tickAll_fanout" /\ pc'[c] # "tickAll_fanout") =>
                /\ pc'[c] = "idle"
                /\ status'[c] = 0
                /\ registryMutex_' = NoOwner]_vars

\* after a register, a tick call with an invalid reward buffer returned -1:
\* the mutex is free and no snapshot exists
C13_Witness ==
    /\ Quiescent /\ ~overlap
    /\ Len(seqLog) = 2
    /\ seqLog[1].op = "register" /\ seqLog[2].op = "tick_rejected"
    /\ registryMutex_ = NoOwner
    /\ \A c \in Callers : modelsToTick[c] = {}
    /\ \E c \in Callers : status[c] = -1

\* C14: a spartan_test_vector_union call with a null pointer or a size that
\* is not positive returns a negative value and leaves the target and the
\* source array as they were, and the kernel runs in a call only if both
\* pointers are non-null and both sizes positive.
C14_UnionValidatesArguments ==
    [][(~unionArgs.called /\ unionArgs'.called) =>
          LET invalid == \/ unionArgs'.targetFuzzySet = nullptr
                         \/ unionArgs'.sourceFuzzySet = nullptr
                         \/ unionArgs'.targetSetSize <= 0
                         \/ unionArgs'.sourceSetSize <= 0
          IN /\ invalid => /\ unionResult' < 0
                           /\ targetSet' = targetSet
                           /\ sourceSet' = sourceSet
             /\ kernelRan' => ~invalid]_vars

\* a call with two valid pointers and a source size of 0 was rejected,
\* although the source array holds a larger element than the target array
C14_Witness ==
    /\ unionArgs.called
    /\ unionArgs.targetFuzzySet # nullptr /\ unionArgs.sourceFuzzySet # nullptr
    /\ unionArgs.targetSetSize > 0 /\ unionArgs.sourceSetSize = 0
    /\ unionResult < 0
    /\ ~kernelRan
    /\ \E i \in Indices : sourceSet[i] > targetSet[i]

C16_RebindEqualsConstruct ==
    [][\A agentId \in Ids, b \in ModelArgSets :
          \A critic \in Critics(b) :
              ModelRebind(agentId, b, critic) =>
                  self' = ConstructedWith(agentId, b, critic)]_vars

\* a model bound with a critic was rebound to another id and other buffers,
\* without a critic
C16_Witness ==
    /\ method.name = "rebind"
    /\ method.before.params_ # nullptr
    /\ method.before.critic_ # nullptr
    /\ self.critic_ = nullptr
    /\ self.uuid_ # method.before.uuid_
    /\ self.params_ # method.before.params_
    /\ self.weights_ # method.before.weights_

\* C17: after unbind the object's params_ and critic_ are null and its
\* weights_, contextBuffer_ and actionBuffer_ are empty, whatever it was
\* bound to.
C17_UnbindClearsReferences ==
    [][ModelUnbind =>
          /\ self'.params_ = nullptr
          /\ self'.critic_ = nullptr
          /\ self'.weights_ = EmptySpan
          /\ self'.contextBuffer_ = EmptySpan
          /\ self'.actionBuffer_ = EmptySpan]_vars

\* unbind has run on a model that was bound to host buffers and a critic
C17_Witness ==
    /\ method.name = "unbind"
    /\ method.before.params_ # nullptr
    /\ method.before.critic_ # nullptr
    /\ method.before.weights_ # EmptySpan
    /\ self.params_ = nullptr
    /\ self.uuid_ = method.before.uuid_

C19_NoViewRetainedPastTick ==
    \A c \in Callers :
        (pc[c] = "tickAll_fanout" /\ ticked[c] = modelsToTick[c]) =>
            \A m \in MapValues(activeModels_) :
                /\ objects[m].weights_ = EmptySpan
                /\ objects[m].contextBuffer_ = EmptySpan
                /\ objects[m].actionBuffer_ = EmptySpan

\* the places where a call waits for the registry mutex
WaitsForMutex ==
    {"getIdleModelToRebind", "registerModel", "unregisterModel", "tickAll"}

InPlaceKernels ==
    {"unionSets", "intersectSets", "complementSet", "applyConcentration",
     "applyDilation", "applyRemorseUpdate"}

\* the second array as the kernel called found it
SecondBefore == IF kernelCall.aliased THEN kernelCall.before ELSE sourceSet

\* what the element-by-element definition of the kernel called makes of an
\* element t of the first array, s being the element of the second array
ScalarElement(t, s) ==
    CASE kernelCall.name = "unionSets" -> IF s > t THEN s ELSE t
      [] kernelCall.name = "intersectSets" -> IF s < t THEN s ELSE t
      [] kernelCall.name = "complementSet" -> RoundToNearestEven(One - t, 1)
      [] kernelCall.name = "applyConcentration" -> RoundToNearestEven(t * t, One)
      [] kernelCall.name = "applyDilation" -> Sqrt(t)
      [] kernelCall.name = "applyRemorseUpdate" ->
             RoundToNearestEven(
                 t + RoundToNearestEven(
                         RoundToNearestEven(
                             kernelCall.learningRate * kernelCall.remorse, One)
                         * s, One),
                 1)

\* C21: after unionSets, intersectSets, complementSet, applyConcentration,
\* applyDilation or applyRemorseUpdate with any length n >= 0, divisible by
\* four or not, every element of index below n holds what the scalar
\* definition makes of the element it held before the call, applied once,
\* and every element of index n or above holds what it held before.
C21_BatchedEqualsScalar ==
    kernelCall.name \in InPlaceKernels =>
        targetSet = [i \in Indices |->
                        IF i <= kernelCall.arrayLength
                        THEN ScalarElement(kernelCall.before[i], SecondBefore[i])
                        ELSE kernelCall.before[i]]

\* complementSet has run one batch and a scalar tail and has changed every
\* element
C21_Witness ==
    /\ kernelCall.name = "complementSet"
    /\ kernelCall.arrayLength > 4
    /\ kernelCall.arrayLength % 4 # 0
    /\ \A i \in 1..kernelCall.arrayLength : targetSet[i] # kernelCall.before[i]
    /\ \E i, j \in Indices : kernelCall.before[i] # kernelCall.before[j]

\* C22: a computeFuzzySetUnion call with sizes sizeA and sizeB leaves in
\* target[i] the larger of target[i] and source[i] for the indices below
\* min(sizeA, sizeB), leaves the target elements from min(sizeA, sizeB) on as
\* they were, and leaves the source array as it was.
C22_UnionOverShorterLength ==
    [][(~unionArgs.called /\ unionArgs'.called /\ kernelRan') =>
          LET sizeA == unionArgs'.targetSetSize
              sizeB == unionArgs'.sourceSetSize
              shorter == IF sizeA < sizeB THEN sizeA ELSE sizeB
          IN /\ \A i \in Indices :
                    targetSet'[i] =
                        IF i <= shorter
                        THEN (IF sourceSet[i] > targetSet[i] THEN sourceSet[i]
                              ELSE targetSet[i])
                        ELSE targetSet[i]
             /\ sourceSet' = sourceSet]_vars

\* the kernel ran over a source shorter than the target: an element below
\* the source's length was raised to the source's, and one from that length
\* on, inside the target's length, is still below the source's
C22_Witness ==
    /\ unionArgs.called /\ kernelRan
    /\ unionArgs.sourceSetSize < unionArgs.targetSetSize
    /\ \E i \in 1..unionArgs.sourceSetSize :
           targetSet[i] = sourceSet[i] /\ targetSet[i] > 0
    /\ \E i \in (unionArgs.sourceSetSize + 1)..unionArgs.targetSetSize :
           sourceSet[i] > targetSet[i]

\* C23: unionSets(A, A) and intersectSets(A, A), the same array passed as
\* target and as source, leave every element of A as it was, for every
\* length.
C23_UnionIntersectIdempotent ==
    (kernelCall.name \in {"unionSets", "intersectSets"} /\ kernelCall.aliased)
        => targetSet = kernelCall.before

\* intersectSets(A, A) has run over a batch and a tail of an array that
\* holds 0.375
C23_Witness ==
    /\ kernelCall.name = "intersectSets" /\ kernelCall.aliased
    /\ kernelCall.arrayLength > 4
    /\ \E i \in 1..kernelCall.arrayLength : kernelCall.before[i] = 3
    /\ \E i \in 1..kernelCall.arrayLength : kernelCall.before[i] = One

\* the array a second complementSet call of the same length would leave
ComplementedTwice == complementSet(targetSet, kernelCall.arrayLength)

\* C24 as stated: complementSet applied twice to an array returns every
\* element to the value it had.
C24_ComplementInvolution ==
    kernelCall.name = "complementSet" => ComplementedTwice = kernelCall.before

\* half the distance between 1.0 and the double below it
RoundTripTolerance == Ulp(One - 1) \div 2

\* C24, amended: complementSet applied twice returns every element below
\* the length to within half the distance between 1.0 and the double below
\* it of its value, and to that value itself when 1.0 minus the value is a
\* double; the elements from the length on are what they were.
C24_ComplementRoundTrip ==
    kernelCall.name = "complementSet" =>
        \A i \in Indices :
            LET x == kernelCall.before[i]
                y == ComplementedTwice[i]
            IN IF i <= kernelCall.arrayLength
               THEN /\ y - x <= RoundTripTolerance
                    /\ x - y <= RoundTripTolerance
                    /\ RoundToNearestEven(One - x, 1) = One - x => y = x
               ELSE y = x

\* complementSet ran over a batch and a tail; a second run returns one
\* element to another value than it had, and another to its value
C24_Witness ==
    /\ kernelCall.name = "complementSet"
    /\ kernelCall.arrayLength > 4
    /\ \E i \in 1..kernelCall.arrayLength :
           ComplementedTwice[i] # kernelCall.before[i]
    /\ \E i \in 1..kernelCall.arrayLength :
           /\ ComplementedTwice[i] = kernelCall.before[i]
           /\ targetSet[i] # kernelCall.before[i]

\* the sum of a[i] * b[i] over the first n elements, added in index order
RECURSIVE SumOfProducts(_, _, _)
SumOfProducts(a, b, n) ==
    IF n = 0 THEN 0
    ELSE RoundToNearestEven(
             SumOfProducts(a, b, n - 1) + RoundToNearestEven(a[n] * b[n], One),
             1)

\* C25: cosineSimilarity(a, b) returns 0.0 and divides nothing whenever the
\* sum of squares of a or of b over the length is exactly 0; otherwise it
\* returns dot(a, b) / sqrt(sumSq(a) * sumSq(b)).  It writes neither array.
C25_CosineZeroMagnitude ==
    kernelCall.name = "cosineSimilarity" =>
        LET a == kernelCall.before
            b == SecondBefore
            n == kernelCall.arrayLength
        IN /\ targetSet = a
           /\ IF SumOfProducts(a, a, n) = 0 \/ SumOfProducts(b, b, n) = 0
              THEN /\ kernelCall.result = Finite(0)
                   /\ ~kernelCall.divided
              ELSE /\ kernelCall.divided
                   /\ kernelCall.result =
                          Div(SumOfProducts(a, b, n),
                              Sqrt(RoundToNearestEven(
                                       SumOfProducts(a, a, n)
                                           * SumOfProducts(b, b, n), One)))

\* cosineSimilarity ran over a batch and a tail of a first array with
\* non-zero elements and a second array of zeros, and returned 0.0 without
\* dividing
C25_Witness ==
    /\ kernelCall.name = "cosineSimilarity" /\ ~kernelCall.aliased
    /\ kernelCall.arrayLength > 4
    /\ \A i \in 1..kernelCall.arrayLength : targetSet[i] # 0 /\ sourceSet[i] = 0
    /\ kernelCall.result = Finite(0)
    /\ ~kernelCall.divided

\* the sum of the smaller, or of the larger, of a[i] and b[i] over the first
\* n elements, added in index order
RECURSIVE SumOfMinima(_, _, _)
SumOfMinima(a, b, n) ==
    IF n = 0 THEN 0
    ELSE RoundToNearestEven(
             SumOfMinima(a, b, n - 1) + (IF a[n] < b[n] THEN a[n] ELSE b[n]), 1)

RECURSIVE SumOfMaxima(_, _, _)
SumOfMaxima(a, b, n) ==
    IF n = 0 THEN 0
    ELSE RoundToNearestEven(
             SumOfMaxima(a, b, n - 1) + (IF a[n] > b[n] THEN a[n] ELSE b[n]), 1)

\* C26: fuzzyJaccard(a, b) returns 1.0 and divides nothing whenever the sum
\* of the element-wise maxima over the length is exactly 0; otherwise it
\* returns sum(min(a[i], b[i])) / sum(max(a[i], b[i])).  It writes neither
\* array.
C26_JaccardEmptyUnion ==
    kernelCall.name = "fuzzyJaccard" =>
        LET a == kernelCall.before
            b == SecondBefore
            n == kernelCall.arrayLength
        IN /\ targetSet = a
           /\ IF SumOfMaxima(a, b, n) = 0
              THEN /\ kernelCall.result = Finite(One)
                   /\ ~kernelCall.divided
              ELSE /\ kernelCall.divided
                   /\ kernelCall.result =
                          Div(SumOfMinima(a, b, n), SumOfMaxima(a, b, n))

\* fuzzyJaccard ran over a batch and a tail of two arrays of zeros and
\* returned 1.0 without dividing
C26_Witness ==
    /\ kernelCall.name = "fuzzyJaccard" /\ ~kernelCall.aliased
    /\ kernelCall.arrayLength > 4
    /\ \A i \in 1..kernelCall.arrayLength : targetSet[i] = 0 /\ sourceSet[i] = 0
    /\ kernelCall.result = Finite(One)
    /\ ~kernelCall.divided

\* C27: fuzzyJaccard(A, A), the same array passed twice, is 1.0 for every
\* array A of membership degrees and every length, the array of zeros and
\* the length 0 included.
C27_JaccardOfItself ==
    (kernelCall.name = "fuzzyJaccard" /\ kernelCall.aliased)
        => kernelCall.result = Finite(One)

\* fuzzyJaccard(A, A) ran over a batch and a tail of an array that holds
\* different non-zero degrees, divided, and returned 1.0
C27_Witness ==
    /\ kernelCall.name = "fuzzyJaccard" /\ kernelCall.aliased
    /\ kernelCall.arrayLength > 4
    /\ \E i, j \in 1..kernelCall.arrayLength :
           targetSet[i] = 3 /\ targetSet[j] = One
    /\ targetSet[kernelCall.arrayLength] # 0
    /\ kernelCall.divided
    /\ kernelCall.result = Finite(One)

\* C28: cosineSimilarity(A, A), the same array passed twice, is 1.0 for every
\* array A whose sum of squares over the length is not zero, for every
\* length.
C28_CosineOfItself ==
    (/\ kernelCall.name = "cosineSimilarity"
     /\ kernelCall.aliased
     /\ SumOfProducts(kernelCall.before, kernelCall.before,
                      kernelCall.arrayLength) # 0)
        => kernelCall.result = Finite(One)

\* C29: applyRemorseUpdate(weights, features, remorse, learningRate, n)
\* leaves in weights[i] its old value plus (learningRate * remorse) *
\* features[i] for every index below n, leaves the weights from n on and the
\* features as they were; with remorse 0 the weights are unchanged whatever
\* the learning rate, and with remorse 1 and learning rate 1 weights[i] is
\* its old value plus features[i].
C29_RemorseUpdate ==
    [][(kernelCall.name = "none" /\ kernelCall'.name = "applyRemorseUpdate") =>
          LET n == kernelCall'.arrayLength
              remorse == kernelCall'.remorse
              learningRate == kernelCall'.learningRate
              factor == RoundToNearestEven(learningRate * remorse, One)
          IN /\ \A i \in Indices :
                    targetSet'[i] =
                        IF i <= n
                        THEN RoundToNearestEven(
                                 targetSet[i]
                                     + RoundToNearestEven(factor * sourceSet[i],
                                                          One),
                                 1)
                        ELSE targetSet[i]
             /\ sourceSet' = sourceSet
             /\ remorse = 0 => targetSet' = targetSet
             /\ (remorse = One /\ learningRate = One) =>
                    \A i \in 1..n :
                        targetSet'[i] =
                            RoundToNearestEven(targetSet[i] + sourceSet[i], 1)]_vars

\* applyRemorseUpdate ran with remorse 1.0 and learning rate 0.5 over a
\* batch and a tail of non-zero features and changed weights
C29_Witness ==
    /\ kernelCall.name = "applyRemorseUpdate"
    /\ kernelCall.remorse = One /\ kernelCall.learningRate < One
    /\ kernelCall.arrayLength > 4
    /\ \A i \in 1..kernelCall.arrayLength : sourceSet[i] # 0
    /\ \E i \in 1..4 : targetSet[i] # kernelCall.before[i]
    /\ targetSet[kernelCall.arrayLength]
           # kernelCall.before[kernelCall.arrayLength]

C31_TickChangesNoRegistryState ==
    /\ [](\A c \in Callers :
              TickInFlight(c) => MapValues(activeModels_) = modelsToTick[c])
    /\ [][\A c \in Callers :
              (/\ pc[c] \in {"tickAll", "tickAll_fanout"}
               /\ (pc'[c] # pc[c] \/ ticked'[c] # ticked[c]))
                  => UNCHANGED <<registryVars, objectVars>>]_vars

\* a tick has visited its whole snapshot of two models and is about to
\* return
C31_Witness ==
    \E c \in Callers :
        /\ pc[c] = "tickAll_fanout"
        /\ Cardinality(modelsToTick[c]) = 2
        /\ ticked[c] = modelsToTick[c]

\* C32: no model of a tickAll snapshot is destroyed, unbound or rebound
\* before the fan-out of that tick has completed: while the tick is in
\* flight every model of its snapshot is a live, bound object, and no step of
\* any caller destroys it or changes one of its fields.
C32_SnapshotPointersNeverDangle ==
    /\ [](\A c \in Callers :
              TickInFlight(c) =>
                  \A m \in modelsToTick[c] :
                      m \notin destroyed /\ objects[m] # RawStorage)
    /\ [][\A c \in Callers :
              TickInFlight(c) =>
                  \A m \in modelsToTick[c] :
                      m \notin destroyed' /\ objects'[m] = objects[m]]_vars

\* a tick is in its fan-out while another caller's unregister of a model of
\* the snapshot waits for the mutex
C32_Witness ==
    \E c, d \in Callers :
        /\ pc[c] = "tickAll_fanout"
        /\ ticked[c] # modelsToTick[c]
        /\ pc[d] = "unregisterModel"
        /\ activeModels_[args[d].id] \in modelsToTick[c]

\* C33: in every reachable state each entry of the active mapping is stored
\* under the key equal to the id the model itself holds.
C33_KeyEqualsModelId ==
    \A id \in Ids :
        activeModels_[id] # NoModel => objects[activeModels_[id]].uuid_ = id

\* both ids are active, one of them under the model of its second
\* registration
C33_Witness ==
    /\ \A id \in Ids : activeModels_[id] # NoModel
    /\ destroyed # {}
    /\ Quiescent

\* C34: when every registration goes through spartan_register_model, no call
\* with a null hyperparameter pointer gets past the boundary, and every model
\* of the active mapping, and every model of a tickAll snapshot while its
\* fan-out runs, holds a non-null params_, so that the params_->isTraining of
\* processTick reads a record.
C34_ActiveModelsHaveHyperparameters ==
    /\ [](/\ \A id \in Ids :
                 activeModels_[id] # NoModel =>
                     objects[activeModels_[id]].params_ # nullptr
          /\ \A c \in Callers :
                 TickInFlight(c) =>
                     \A m \in modelsToTick[c] : objects[m].params_ # nullptr)
    /\ [][\A c \in Callers, id \in Ids, a \in RegisterInputs(calls + 1) :
              (CallRegister(c, id, a) /\ a.hyperparameterConfig = nullptr)
                  => pc'[c] = "idle" /\ UNCHANGED <<registryVars, objectVars>>]_vars

\* a register was rejected at the boundary, and a tick's fan-out runs over a
\* model that an accepted register bound
C34_Witness ==
    /\ \E i \in 1..Len(seqLog) : seqLog[i].op = "register_rejected"
    /\ \E c \in Callers :
          /\ pc[c] = "tickAll_fanout"
          /\ modelsToTick[c] # {}
          /\ \A m \in modelsToTick[c] : objects[m].params_ = HostArgs(1).hyperparameterConfig

\* ------------------------------------------------------------- no deadlock
\* the next step of the operation a caller is in
OperationStep(c) ==
    \/ GetIdleModelToRebind(c)
    \/ Construct(c)
    \/ RegisterModel(c)
    \/ UnregisterModel(c)
    \/ TickAllSnapshot(c)
    \/ \E m \in Instances : TickAllLambda(c, m)
    \/ TickAllReturn(c)

\* C35: the registry never deadlocks.  A caller that holds the mutex is
\* inside the fan-out of tickAll: it has not returned, and it is at no place
\* where an operation takes the mutex.  A caller inside an operation can take
\* its next step, or the mutex it waits for is held by another caller that
\* can take its next step.
C35_NoDeadlock ==
    \A c \in Callers :
        /\ registryMutex_ = c => pc[c] = "tickAll_fanout"
        /\ pc[c] # "idle" =>
              \/ ENABLED OperationStep(c)
              \/ \E d \in Callers \ {c} :
                    registryMutex_ = d /\ ENABLED OperationStep(d)

\* a tick holds the mutex with an element left to visit while another
\* caller's register, past getIdleModelToRebind and the construction, waits
\* for it in registerModel
C35_Witness ==
    \E c, d \in Callers :
        /\ registryMutex_ = c
        /\ ticked[c] # modelsToTick[c]
        /\ pc[d] = "registerModel"
        /\ ~ENABLED OperationStep(d)

====
